---- MODULE Spec2Model ----
(***************************************************************************)
(* Credit-scoring scripts: the trainer (src/utils/trainCreditModel.py) and *)
(* the predictor (src/utils/predictCredit.py).  Each script is a process   *)
(* whose steps are the statements of its __main__ block; the two share the *)
(* files of the data directory and nothing else.                           *)
(*                                                                         *)
(* Probabilities are fractions n / ProbGrid, held by their numerator n.    *)
(* The product (1 - p) * 1000 is the exact rational                        *)
(* (ProbGrid - n) * 1000 / ProbGrid: the model's abstraction of the        *)
(* floating-point product the code computes.                               *)
(***************************************************************************)
EXTENDS Integers, Sequences, FiniteSets, TLC

VARIABLES
    csv,                \* german_credit.csv: "absent", or what its contents allow
    modelFile,          \* credit_model.pkl: 0 = absent, n = the n-th model written
    featureNamesFile,   \* feature_names.txt: 0 = absent, n = written with model n
    tpc,                \* trainer: position in __main__
    trainer_stdout,     \* trainer: the lines printed so far
    texit,              \* trainer: exit code, -1 while none
    tstart,             \* trainer: <<modelFile, featureNamesFile>> when the run began
    truns,              \* trainer runs started
    ppc,                \* predictor: position in __main__ / predict
    argv,               \* predictor: sys.argv[1:]
    features,           \* predictor: json.loads(features_json)
    model,              \* predictor: joblib.load(model_path), 0 = not loaded
    feature_vector,     \* predictor: the list handed to pd.DataFrame
    prediction,         \* predictor: model.predict(df)[0], -1 = not computed
    probability,        \* predictor: model.predict_proba(df)[0], numerators
    result,             \* predictor: predict()'s return value
    exc,                \* predictor: str(e) of the exception in flight, "" if none
    predictor_stdout,   \* predictor: the lines printed so far
    pexit,              \* predictor: exit code, -1 while none
    pstart              \* predictor: modelFile when the invocation began

fvars == <<csv, modelFile, featureNamesFile>>
tvars == <<tpc, trainer_stdout, texit, tstart, truns>>
plocals == <<features, model, feature_vector, prediction, probability, result, exc>>
pvars == <<ppc, argv, plocals, predictor_stdout, pexit, pstart>>
vars == <<fvars, tvars, pvars>>

----------------------------------------------------------------------------
(* Bounds *)

MaxTrainRuns == 2       \* trainer runs per behaviour
ProbGrid == 30          \* probabilities are n / ProbGrid, n \in 0..ProbGrid
MaxAbsent == 1          \* feature objects miss, or hold, at most this many keys
ValBase == 100          \* the caller's value for the i-th key is ValBase + i

----------------------------------------------------------------------------
(* Python values and the library calls the predictor makes *)

EmptyDict == [k \in {} |-> 0]

\* dict.get(key, default)
Get(d, key, default) == IF key \in DOMAIN d THEN d[key] ELSE default

\* a parsed JSON value: its Python type and, for a dict, its members
PyVal(type, members) == [type |-> type, members |-> members]

\* str(e) of the exceptions the predictor can meet
IndexErrorMsg == "list index out of range"
ModelNotFoundMsg == "Model not found. Please train the model first."
LoadErrorMsg == "joblib.load failed"
PredictErrorMsg == "model.predict failed"
ProbaErrorMsg == "model.predict_proba failed"
AttributeErrorMsg(type) ==
    CASE type = "list" -> "'list' object has no attribute 'get'"
      [] type = "NoneType" -> "'NoneType' object has no attribute 'get'"
      [] type = "int" -> "'int' object has no attribute 'get'"
      [] OTHER -> "'str' object has no attribute 'get'"

\* a command-line argument: a literal text, or the text of a JSON object
TextArg(text) == [kind |-> "text", text |-> text, members |-> EmptyDict]
ObjectArg(members) == [kind |-> "object", text |-> "", members |-> members]

\* json.loads: the parsed value, or the message of the JSONDecodeError
JsonLoads(a) ==
    CASE a.kind = "object" ->
            [ok |-> TRUE, value |-> PyVal("dict", a.members), msg |-> ""]
      [] a.kind = "text" /\ a.text = "[1]" ->
            [ok |-> TRUE, value |-> PyVal("list", EmptyDict), msg |-> ""]
      [] a.kind = "text" /\ a.text = "null" ->
            [ok |-> TRUE, value |-> PyVal("NoneType", EmptyDict), msg |-> ""]
      [] a.kind = "text" /\ a.text = "7" ->
            [ok |-> TRUE, value |-> PyVal("int", EmptyDict), msg |-> ""]
      [] a.kind = "text" /\ a.text = "{" ->
            [ok |-> FALSE, value |-> PyVal("NoneType", EmptyDict),
             msg |-> "Expecting property name enclosed in double quotes: line 1 column 2 (char 1)"]
      [] OTHER ->
            [ok |-> FALSE, value |-> PyVal("NoneType", EmptyDict),
             msg |-> "Expecting value: line 1 column 1 (char 0)"]

\* json.dumps of a dict: one line of text holding the dict's keys and values
JsonDumps(obj) == [json |-> obj]

\* model.predict_proba(df)[0] and the unset value of the local
Pair(p0, p1) == [i \in {0, 1} |-> IF i = 0 THEN p0 ELSE p1]
NoProbability == Pair(-1, -1)

\* BuildVector with the property and age lines exchanged
BuildVector_Swapped(features_dict) ==
    << Get(features_dict, "checking_account", 0),
       Get(features_dict, "duration", 12),
       Get(features_dict, "credit_history", 0),
       Get(features_dict, "purpose", 4),
       Get(features_dict, "credit_amount", 0),
       Get(features_dict, "savings_account", 0),
       Get(features_dict, "employment", 1),
       Get(features_dict, "installment_rate", 1),
       Get(features_dict, "personal_status", 1),
       Get(features_dict, "other_debtors", 1),
       Get(features_dict, "residence_since", 1),
       Get(features_dict, "age", 35),
       Get(features_dict, "property", 1),
       Get(features_dict, "other_installment_plans", 0),
       Get(features_dict, "housing", 1),
       Get(features_dict, "existing_credits", 0),
       Get(features_dict, "job", 1),
       Get(features_dict, "liable_people", 0),
       Get(features_dict, "telephone", 1),
       Get(features_dict, "foreign_worker", 0) >>

\* the 20-element list of predict(): one .get per line, in the code's order
BuildVector(features_dict) ==
    << Get(features_dict, "checking_account", 0),
       Get(features_dict, "duration", 12),
       Get(features_dict, "credit_history", 0),
       Get(features_dict, "purpose", 4),
       Get(features_dict, "credit_amount", 0),
       Get(features_dict, "savings_account", 0),
       Get(features_dict, "employment", 1),
       Get(features_dict, "installment_rate", 1),
       Get(features_dict, "personal_status", 1),
       Get(features_dict, "other_debtors", 1),
       Get(features_dict, "residence_since", 1),
       Get(features_dict, "property", 1),
       Get(features_dict, "age", 35),
       Get(features_dict, "other_installment_plans", 0),
       Get(features_dict, "housing", 1),
       Get(features_dict, "existing_credits", 0),
       Get(features_dict, "job", 1),
       Get(features_dict, "liable_people", 0),
       Get(features_dict, "telephone", 1),
       Get(features_dict, "foreign_worker", 0) >>

RECURSIVE Gcd(_, _)
Gcd(a, b) == IF b = 0 THEN a ELSE Gcd(b, a % b)

RECURSIVE IsPowerOfTwo(_)
IsPowerOfTwo(n) == n = 1 \/ (n > 1 /\ n % 2 = 0 /\ IsPowerOfTwo(n \div 2))

\* n / ProbGrid is a double exactly (its reduced denominator is a power of two)
ExactDouble(n) == n = 0 \/ IsPowerOfTwo(ProbGrid \div Gcd(n, ProbGrid))

\* CreditScores with round() in place of int()
CreditScores_Rounded(n) ==
    {((ProbGrid - n) * 2000 + ProbGrid) \div (2 * ProbGrid)}

\* CreditScores with probability[1] in place of 1 - probability[1]
CreditScores_OfDefault(n) == {(n * 1000) \div ProbGrid}

\* int((1 - probability[1]) * 1000): int() drops the fraction.  In exact
\* arithmetic that is the quotient below; where the exact product is a whole
\* number and the probability is not a double exactly, the floating-point
\* product may fall just short of it, and int() then yields one less.
CreditScores(n) ==
    LET num == (ProbGrid - n) * 1000
        q == num \div ProbGrid
    IN  IF num % ProbGrid = 0 /\ q > 0 /\ ~ExactDouble(n)
        THEN {q, q - 1}
        ELSE {q}

\* RiskLabel with the two labels exchanged
RiskLabel_Inverted(pred) == IF pred = 1 THEN "low" ELSE "high"

\* 'high' if prediction == 1 else 'low'
RiskLabel(pred) == IF pred = 1 THEN "high" ELSE "low"

\* SuccessResult with probability[1] under both probability keys
SuccessResult_SameProb(pred, prob, score) ==
    [risk |-> IF pred = 1 THEN "high" ELSE "low",
     probability_default |-> prob[1],
     probability_good |-> prob[1],
     credit_score |-> score]

\* the dict predict() returns on success
SuccessResult(pred, prob, score) ==
    [risk |-> RiskLabel(pred),
     probability_default |-> prob[1],
     probability_good |-> prob[0],
     credit_score |-> score]

\* the dict predict() returns when the model file is missing
ModelNotFoundResult == [error |-> ModelNotFoundMsg]

\* {'error': str(e)}
ErrorResult(msg) == [error |-> msg]

NoResult == EmptyDict

----------------------------------------------------------------------------
(* Inputs *)

\* the features the trainer's predict_credit_risk documents, in its order
FeatureNames ==
    << "checking_account", "duration", "credit_history", "purpose", "credit_amount",
       "savings_account", "employment", "installment_rate", "personal_status",
       "other_debtors", "residence_since", "property", "age",
       "other_installment_plans", "housing", "existing_credits", "job",
       "liable_people", "telephone", "foreign_worker" >>

Keys == {FeatureNames[i] : i \in DOMAIN FeatureNames}

\* the names a caller may send: the expected keys and one the predictor ignores
CallerNames == Keys \cup {"extra"}

\* the caller's value for a name: distinct per key and unlike every default
CallerValue(k) ==
    IF k \in Keys
    THEN ValBase + (CHOOSE i \in DOMAIN FeatureNames : FeatureNames[i] = k)
    ELSE ValBase

CallerObject(S) == [k \in S |-> CallerValue(k)]

RECURSIVE SubsetsUpTo(_, _)
SubsetsUpTo(S, n) ==
    IF n = 0 THEN {{}}
    ELSE LET R == SubsetsUpTo(S, n - 1) IN R \cup {r \cup {x} : r \in R, x \in S}

\* sys.argv[1:] of an invocation: nothing, a text, or a feature object
NoArgv == {<< >>}
TextArgv == {<<TextArg(t)>> : t \in {"not-json", "{", "[1]", "null", "7"}}
ObjectArgv(sets) == {<<ObjectArg(CallerObject(S))>> : S \in sets}

FewKeySets == {{}, Keys, {"duration"}, Keys \ {"age"}}
ManyKeySets ==
    LET small == SubsetsUpTo(CallerNames, MaxAbsent)
    IN  small \cup {CallerNames \ S : S \in small}

ArgvFew == NoArgv \cup TextArgv \cup ObjectArgv(FewKeySets)
ArgvMany == NoArgv \cup TextArgv \cup ObjectArgv(ManyKeySets)

\* what model.predict_proba may return: any two numerators, or a few
ProbaAll == {Pair(a, b) : a, b \in 0..ProbGrid}
ProbaFew == {Pair(ProbGrid, 0), Pair(0, ProbGrid), Pair(ProbGrid - 1, 1)}

----------------------------------------------------------------------------
(* The trainer: trainCreditModel.py, __main__ *)

TrainerCrash ==
    /\ texit' = 1
    /\ tpc' = "done"

TStart ==
    /\ tpc \in {"idle", "done"}
    /\ truns < MaxTrainRuns
    /\ tpc' = "check_csv"
    /\ trainer_stdout' = << >>
    /\ texit' = -1
    /\ tstart' = <<modelFile, featureNamesFile>>
    /\ truns' = truns + 1
    /\ UNCHANGED <<fvars, pvars>>

\* TCheckCsv without the sys.exit(1)
TCheckCsv_NoExit ==
    /\ tpc = "check_csv"
    /\ IF csv = "absent"
       THEN trainer_stdout' = trainer_stdout \o
                <<"Error: Dataset not found", "Please run downloadCreditDataset.js first">>
       ELSE UNCHANGED trainer_stdout
    /\ tpc' = "load"
    /\ UNCHANGED <<fvars, texit, tstart, truns, pvars>>

\* if not os.path.exists(csv_path): print, print, sys.exit(1)
TCheckCsv ==
    /\ tpc = "check_csv"
    /\ IF csv = "absent"
       THEN /\ trainer_stdout' = trainer_stdout \o
                    <<"Error: Dataset not found", "Please run downloadCreditDataset.js first">>
            /\ texit' = 1
            /\ tpc' = "done"
       ELSE /\ tpc' = "load"
            /\ UNCHANGED <<trainer_stdout, texit>>
    /\ UNCHANGED <<fvars, tstart, truns, pvars>>

\* load_and_preprocess_data: an exception is not caught
TLoad ==
    /\ tpc = "load"
    /\ trainer_stdout' = Append(trainer_stdout, "Loading dataset...")
    /\ IF csv = "unreadable"
       THEN TrainerCrash
       ELSE /\ tpc' = "train"
            /\ UNCHANGED texit
    /\ UNCHANGED <<fvars, tstart, truns, pvars>>

\* TTrain with the exception of a failed fit swallowed
TTrain_SwallowsFailure ==
    /\ tpc = "train"
    /\ IF csv = "unfittable"
       THEN trainer_stdout' = Append(trainer_stdout, "Training model...")
       ELSE trainer_stdout' = trainer_stdout \o
                <<"Training model...", "Model Accuracy", "Classification Report:", "report">>
    /\ tpc' = "save"
    /\ UNCHANGED <<fvars, texit, tstart, truns, pvars>>

\* train_model: split, fit, evaluate, print; an exception is not caught
TTrain ==
    /\ tpc = "train"
    /\ IF csv = "unfittable"
       THEN /\ trainer_stdout' = Append(trainer_stdout, "Training model...")
            /\ TrainerCrash
       ELSE /\ trainer_stdout' = trainer_stdout \o
                    <<"Training model...", "Model Accuracy", "Classification Report:", "report">>
            /\ tpc' = "save"
            /\ UNCHANGED texit
    /\ UNCHANGED <<fvars, tstart, truns, pvars>>

\* os.makedirs, joblib.dump(model, model_path), print
TSave ==
    /\ tpc = "save"
    /\ modelFile' = modelFile + 1
    /\ trainer_stdout' = Append(trainer_stdout, "Model saved to")
    /\ tpc' = "names"
    /\ UNCHANGED <<csv, featureNamesFile, texit, tstart, truns, pvars>>

\* with open(feature_names_path, 'w') as f: f.write(...)
TNames ==
    /\ tpc = "names"
    /\ featureNamesFile' = featureNamesFile + 1
    /\ tpc' = "finish"
    /\ UNCHANGED <<csv, modelFile, trainer_stdout, texit, tstart, truns, pvars>>

\* print("Training completed successfully!"); the script ends
TFinish ==
    /\ tpc = "finish"
    /\ trainer_stdout' = Append(trainer_stdout, "Training completed successfully!")
    /\ texit' = 0
    /\ tpc' = "done"
    /\ UNCHANGED <<fvars, tstart, truns, pvars>>

Trainer == TStart \/ TCheckCsv \/ TLoad \/ TTrain \/ TSave \/ TNames \/ TFinish

----------------------------------------------------------------------------
(* The predictor: predictCredit.py, __main__ and predict *)

\* an exception raised inside the try block
Raise(msg) ==
    /\ exc' = msg
    /\ ppc' = "except"

\* a new process: python predictCredit.py <argv>
PStart(argvs) ==
    /\ ppc \in {"idle", "done"}
    /\ \E a \in argvs : argv' = a
    /\ ppc' = "argv"
    /\ features' = PyVal("NoneType", EmptyDict)
    /\ model' = 0
    /\ feature_vector' = << >>
    /\ prediction' = -1
    /\ probability' = NoProbability
    /\ result' = NoResult
    /\ exc' = ""
    /\ predictor_stdout' = << >>
    /\ pexit' = -1
    /\ pstart' = modelFile
    /\ UNCHANGED <<fvars, tvars>>

\* features_json = sys.argv[1]
PArgv ==
    /\ ppc = "argv"
    /\ IF Len(argv) < 1
       THEN Raise(IndexErrorMsg)
       ELSE /\ ppc' = "loads"
            /\ UNCHANGED exc
    /\ UNCHANGED <<fvars, tvars, argv, features, model, feature_vector, prediction,
                   probability, result, predictor_stdout, pexit, pstart>>

\* PLoads with a parse failure taken for null
PLoads_IgnoresError ==
    /\ ppc = "loads"
    /\ features' = JsonLoads(argv[1]).value
    /\ ppc' = "exists"
    /\ UNCHANGED <<fvars, tvars, argv, model, feature_vector, prediction,
                   probability, result, exc, predictor_stdout, pexit, pstart>>

\* features = json.loads(features_json)
PLoads ==
    /\ ppc = "loads"
    /\ LET r == JsonLoads(argv[1])
       IN  IF r.ok
           THEN /\ features' = r.value
                /\ ppc' = "exists"
                /\ UNCHANGED exc
           ELSE /\ Raise(r.msg)
                /\ UNCHANGED features
    /\ UNCHANGED <<fvars, tvars, argv, model, feature_vector, prediction,
                   probability, result, predictor_stdout, pexit, pstart>>

\* PExists with the test inverted
PExists_Inverted ==
    /\ ppc = "exists"
    /\ IF modelFile # 0
       THEN /\ result' = ModelNotFoundResult
            /\ ppc' = "print"
       ELSE /\ ppc' = "load"
            /\ UNCHANGED result
    /\ UNCHANGED <<fvars, tvars, argv, features, model, feature_vector, prediction,
                   probability, exc, predictor_stdout, pexit, pstart>>

\* predict(): if not os.path.exists(model_path): return {'error': ...}
PExists ==
    /\ ppc = "exists"
    /\ IF modelFile = 0
       THEN /\ result' = ModelNotFoundResult
            /\ ppc' = "print"
       ELSE /\ ppc' = "load"
            /\ UNCHANGED result
    /\ UNCHANGED <<fvars, tvars, argv, features, model, feature_vector, prediction,
                   probability, exc, predictor_stdout, pexit, pstart>>

\* model = joblib.load(model_path): the model, or an exception of the library
PLoad ==
    /\ ppc = "load"
    /\ \/ /\ model' = modelFile
          /\ ppc' = "vector"
          /\ UNCHANGED exc
       \/ /\ Raise(LoadErrorMsg)
          /\ UNCHANGED model
    /\ UNCHANGED <<fvars, tvars, argv, features, feature_vector, prediction,
                   probability, result, predictor_stdout, pexit, pstart>>

\* feature_vector = [features_dict.get(...), ...]
PVector ==
    /\ ppc = "vector"
    /\ IF features.type = "dict"
       THEN /\ feature_vector' = BuildVector(features.members)
            /\ ppc' = "predict"
            /\ UNCHANGED exc
       ELSE /\ Raise(AttributeErrorMsg(features.type))
            /\ UNCHANGED feature_vector
    /\ UNCHANGED <<fvars, tvars, argv, features, model, prediction,
                   probability, result, predictor_stdout, pexit, pstart>>

\* df = pd.DataFrame(...); prediction = model.predict(df)[0]
PPredict ==
    /\ ppc = "predict"
    /\ \/ /\ \E c \in {0, 1} : prediction' = c
          /\ ppc' = "proba"
          /\ UNCHANGED exc
       \/ /\ Raise(PredictErrorMsg)
          /\ UNCHANGED prediction
    /\ UNCHANGED <<fvars, tvars, argv, features, model, feature_vector,
                   probability, result, predictor_stdout, pexit, pstart>>

\* probability = model.predict_proba(df)[0]
PProba(probas) ==
    /\ ppc = "proba"
    /\ \/ /\ \E pr \in probas : probability' = pr
          /\ ppc' = "return"
          /\ UNCHANGED exc
       \/ /\ Raise(ProbaErrorMsg)
          /\ UNCHANGED probability
    /\ UNCHANGED <<fvars, tvars, argv, features, model, feature_vector,
                   prediction, result, predictor_stdout, pexit, pstart>>

\* return {'risk': ..., 'probability_default': ..., ..., 'credit_score': ...}
PReturn ==
    /\ ppc = "return"
    /\ \E score \in CreditScores(probability[1]) :
          result' = SuccessResult(prediction, probability, score)
    /\ ppc' = "print"
    /\ UNCHANGED <<fvars, tvars, argv, features, model, feature_vector, prediction,
                   probability, exc, predictor_stdout, pexit, pstart>>

\* print(json.dumps(result)); the script ends
PPrint ==
    /\ ppc = "print"
    /\ predictor_stdout' = Append(predictor_stdout, JsonDumps(result))
    /\ ppc' = "done"
    /\ pexit' = 0
    /\ UNCHANGED <<fvars, tvars, argv, plocals, pstart>>

\* PExcept re-raising instead of printing
PExcept_Reraise ==
    /\ ppc = "except"
    /\ ppc' = "done"
    /\ pexit' = 1
    /\ UNCHANGED <<fvars, tvars, argv, plocals, predictor_stdout, pstart>>

\* except Exception as e: print(json.dumps({'error': str(e)})); the script ends
PExcept ==
    /\ ppc = "except"
    /\ predictor_stdout' = Append(predictor_stdout, JsonDumps(ErrorResult(exc)))
    /\ ppc' = "done"
    /\ pexit' = 0
    /\ UNCHANGED <<fvars, tvars, argv, plocals, pstart>>

Predictor(argvs, probas) ==
    \/ PStart(argvs)
    \/ PArgv
    \/ PLoads
    \/ PExists
    \/ PLoad
    \/ PVector
    \/ PPredict
    \/ PProba(probas)
    \/ PReturn
    \/ PPrint
    \/ PExcept

----------------------------------------------------------------------------
(* Specifications *)

PredictorIdle ==
    /\ ppc = "idle"
    /\ argv = << >>
    /\ features = PyVal("NoneType", EmptyDict)
    /\ model = 0
    /\ feature_vector = << >>
    /\ prediction = -1
    /\ probability = NoProbability
    /\ result = NoResult
    /\ exc = ""
    /\ predictor_stdout = << >>
    /\ pexit = -1
    /\ pstart = 0

\* a data directory with or without a dataset and no model; nothing has run
Init ==
    /\ csv \in {"absent", "unreadable", "unfittable", "good"}
    /\ modelFile = 0
    /\ featureNamesFile = 0
    /\ tpc = "idle"
    /\ trainer_stdout = << >>
    /\ texit = -1
    /\ tstart = <<0, 0>>
    /\ truns = 0
    /\ PredictorIdle

\* trainer and predictor runs, their steps interleaved
Next == Trainer \/ Predictor(ArgvFew, ProbaFew)

Spec == Init /\ [][Next]_vars

\* the data directory after one complete trainer run on a good dataset
InitTrained ==
    /\ csv = "good"
    /\ modelFile = 1
    /\ featureNamesFile = 1
    /\ tpc = "done"
    /\ trainer_stdout = <<"Loading dataset...", "Training model...", "Model Accuracy",
                          "Classification Report:", "report", "Model saved to",
                          "Training completed successfully!">>
    /\ texit = 0
    /\ tstart = <<0, 0>>
    /\ truns = 1
    /\ PredictorIdle

\* predictions served from a trained model, over many feature objects
NextVector == Predictor(ArgvMany, ProbaFew)

SpecVector == InitTrained /\ [][NextVector]_vars

\* predictions served from a trained model, over every probability pair
NextScore == Predictor(ArgvFew, ProbaAll)

SpecScore == InitTrained /\ [][NextScore]_vars

----------------------------------------------------------------------------
(* Properties *)

\* the predictor process has ended
Ended == ppc = "done"

\* the object of the line the predictor printed
Printed == predictor_stdout[1].json

\* the predictor ended with a prediction
Succeeded == Ended /\ "risk" \in DOMAIN result

\* sys.argv[1] is there and is valid JSON
ArgParses == Len(argv) >= 1 /\ JsonLoads(argv[1]).ok

ModelNotFoundLine ==
    [json |-> [error |-> "Model not found. Please train the model first."]]

\* positions of predict() after the existence check has passed
PastExistsCheck == {"load", "vector", "predict", "proba", "return"}

\* C1 as claimed: whatever its argument is, an invocation that began with no
\* model file prints exactly the Model-not-found object and never reaches
\* joblib.load.
C1_Original ==
    (Ended /\ pstart = 0 /\ Len(argv) = 1) =>
        (predictor_stdout = <<ModelNotFoundLine>> /\ model = 0)

\* C1 as amended: while the model file is absent joblib.load is never reached,
\* whatever the argument; and an invocation whose argument is present and parses
\* as JSON, ending with the model file still absent, prints exactly the
\* Model-not-found object.
C1_ModelNotFound ==
    modelFile = 0 =>
        /\ model = 0
        /\ ppc \notin PastExistsCheck
        /\ (Ended /\ ArgParses) => predictor_stdout = <<ModelNotFoundLine>>

C1_Witness ==
    /\ Ended
    /\ modelFile = 0
    /\ ArgParses
    /\ features.type = "list"
    /\ predictor_stdout = <<ModelNotFoundLine>>

WellFormedLine(line) ==
    /\ DOMAIN line = {"json"}
    /\ LET o == line.json
       IN  \/ /\ DOMAIN o = {"error"}
              /\ o.error \in STRING
           \/ /\ DOMAIN o = {"risk", "probability_default", "probability_good",
                             "credit_score"}
              /\ o.risk \in {"high", "low"}
              /\ o.credit_score \in Int

\* C2: every predictor invocation prints exactly one JSON line and then ends
\* with exit code 0: a success object with exactly the four keys, or an object
\* whose only key is error.  Nothing is printed before the last step, no
\* second line is ever printed, and a running invocation always has a next step.
C2_OneJsonLine ==
    /\ Len(predictor_stdout) <= 1
    /\ Len(predictor_stdout) = 1 <=> Ended
    /\ Ended => (pexit = 0 /\ WellFormedLine(predictor_stdout[1]))
    /\ ~Ended => pexit = -1
    /\ ppc \notin {"idle", "done"} => ENABLED Predictor(ArgvFew, ProbaFew)

C2_Witness ==
    /\ Ended
    /\ exc = PredictErrorMsg
    /\ predictor_stdout = <<[json |-> [error |-> PredictErrorMsg]]>>
    /\ pexit = 0

\* C3: when the argument is not valid JSON, predict() is never called, and the
\* one line printed is an object whose error key holds the parse failure's
\* message; for the literal not-json that is "Expecting value: ...".
C3_BadJson ==
    (Len(argv) >= 1 /\ ~JsonLoads(argv[1]).ok) =>
        /\ ppc \in {"argv", "loads", "except", "done"}
        /\ result = NoResult
        /\ model = 0
        /\ Ended =>
              /\ Len(predictor_stdout) = 1
              /\ DOMAIN Printed = {"error"}
              /\ Printed.error = JsonLoads(argv[1]).msg
              /\ argv[1].text = "not-json" =>
                    Printed.error = "Expecting value: line 1 column 1 (char 0)"

C3_Witness ==
    /\ Ended
    /\ argv = <<TextArg("not-json")>>
    /\ predictor_stdout =
          <<[json |-> [error |-> "Expecting value: line 1 column 1 (char 0)"]]>>

\* the order and the defaults C4 states
C4_Order ==
    << "checking_account", "duration", "credit_history", "purpose", "credit_amount",
       "savings_account", "employment", "installment_rate", "personal_status",
       "other_debtors", "residence_since", "property", "age",
       "other_installment_plans", "housing", "existing_credits", "job",
       "liable_people", "telephone", "foreign_worker" >>

C4_DefaultOk(key, v) ==
    CASE key = "duration" -> v = 12
      [] key = "age" -> v = 35
      [] key = "purpose" -> v = 4
      [] OTHER -> v \in {0, 1}

\* C4: for every feature object the vector has exactly 20 elements in the fixed
\* order; position i holds the caller's value when the key is present and the
\* key's default when it is absent; and a missing key never causes a failure:
\* once the model is loaded, the vector of a dict is always built.
C4_Vector ==
    /\ feature_vector # << >> =>
          /\ Len(feature_vector) = 20
          /\ \A i \in 1..20 :
                IF C4_Order[i] \in DOMAIN features.members
                THEN feature_vector[i] = features.members[C4_Order[i]]
                ELSE C4_DefaultOk(C4_Order[i], feature_vector[i])
    /\ (features.type = "dict" /\ ppc \in {"predict", "proba", "return"}) =>
          feature_vector # << >>
    /\ (features.type = "dict" /\ ppc = "except") =>
          exc \in {LoadErrorMsg, PredictErrorMsg, ProbaErrorMsg}

C4_Witness ==
    /\ Succeeded
    /\ DOMAIN features.members = {"duration"}
    /\ feature_vector[2] = features.members["duration"]
    /\ feature_vector[13] = 35
    /\ feature_vector[4] = 4

\* the exact product (1 - probability_default) * 1000, times ProbGrid
ScaledProduct == (ProbGrid - Printed.probability_default) * 1000

\* C5 as claimed: credit_score is the integer nearest to
\* (1 - probability_default) * 1000.
C5_Original ==
    Succeeded =>
        LET d == Printed.credit_score * ProbGrid - ScaledProduct
        IN  2 * d <= ProbGrid /\ 2 * d >= -ProbGrid

\* C5 as amended: credit_score is (1 - probability_default) * 1000 with the
\* fraction dropped, not rounded: it never exceeds the product and is at most 1
\* below it (exactly 1 below only where the product is a whole number the
\* floating-point product falls short of); at probability 0 it is 1000 and at
\* probability 1 it is 0.
C5_Truncated ==
    Succeeded =>
        /\ Printed.credit_score * ProbGrid <= ScaledProduct
        /\ ScaledProduct <= (Printed.credit_score + 1) * ProbGrid
        /\ ScaledProduct % ProbGrid # 0 =>
              ScaledProduct < (Printed.credit_score + 1) * ProbGrid
        /\ Printed.probability_default = 0 => Printed.credit_score = 1000
        /\ Printed.probability_default = ProbGrid => Printed.credit_score = 0

C5_Witness ==
    /\ Succeeded
    /\ 2 * (ScaledProduct % ProbGrid) > ProbGrid
    /\ Printed.credit_score = ScaledProduct \div ProbGrid

\* C6: on a feature object supplying every expected key, when the model
\* returns two probabilities in [0, 1] that sum to 1, the printed
\* probability_default and probability_good sum to 1 and credit_score is an
\* integer between 0 and 1000.
C6_Ranges ==
    ( /\ Succeeded
      /\ Keys \subseteq DOMAIN features.members
      /\ probability[0] \in 0..ProbGrid
      /\ probability[1] \in 0..ProbGrid
      /\ probability[0] + probability[1] = ProbGrid ) =>
        /\ Printed.probability_default + Printed.probability_good = ProbGrid
        /\ Printed.credit_score \in 0..1000

C6_Witness ==
    /\ Succeeded
    /\ Keys \subseteq DOMAIN features.members
    /\ probability[0] + probability[1] = ProbGrid
    /\ probability[1] \notin {0, ProbGrid}
    /\ 2 * probability[1] # ProbGrid
    /\ Printed.probability_default + Printed.probability_good = ProbGrid

\* C7: risk is "high" exactly when the predicted class is 1 and "low" exactly
\* when it is 0; and when the two probabilities sum to 1 and the predicted
\* class is the class of the strictly larger one, risk is "high" exactly when
\* probability_default > 0.5.
C7_RiskLabel ==
    Succeeded =>
        /\ Printed.risk = "high" <=> prediction = 1
        /\ Printed.risk = "low" <=> prediction = 0
        /\ ( /\ probability[0] + probability[1] = ProbGrid
              /\ probability[prediction] > probability[1 - prediction] ) =>
              (Printed.risk = "high" <=> 2 * Printed.probability_default > ProbGrid)

C7_Witness ==
    /\ Succeeded
    /\ prediction = 1
    /\ probability[0] + probability[1] = ProbGrid
    /\ probability[1] > probability[0]
    /\ Printed.risk = "high"
    /\ 2 * Printed.probability_default > ProbGrid

\* C8: credit_score does not increase with probability_default: the printed
\* score is at least every score of a larger probability and at most every
\* score of a smaller one.
C8_Monotone ==
    Succeeded =>
        \A n \in 0..ProbGrid : \A s \in CreditScores(n) :
            /\ n > Printed.probability_default => Printed.credit_score >= s
            /\ n < Printed.probability_default => s >= Printed.credit_score

C8_Witness ==
    /\ Succeeded
    /\ Printed.probability_default \in 1..(ProbGrid - 1)
    /\ \E s \in CreditScores(0) : s > Printed.credit_score
    /\ \E s \in CreditScores(ProbGrid) : s < Printed.credit_score

Contains(seq, x) == \E i \in DOMAIN seq : seq[i] = x

\* C9: a trainer run with the CSV missing never loads or fits, and ends with
\* exit code 1 having printed its message and left the model file and the
\* feature-name file as they were; a run that ends with exit code 0 has
\* printed the accuracy, the report and the success message and has written
\* both files.
C9_TrainerExit ==
    /\ csv = "absent" =>
          /\ tpc \in {"idle", "check_csv", "done"}
          /\ ~Contains(trainer_stdout, "Loading dataset...")
          /\ tpc = "done" =>
                /\ texit = 1
                /\ trainer_stdout = <<"Error: Dataset not found",
                                      "Please run downloadCreditDataset.js first">>
                /\ <<modelFile, featureNamesFile>> = tstart
    /\ texit = 0 =>
          /\ tpc = "done"
          /\ Contains(trainer_stdout, "Model Accuracy")
          /\ Contains(trainer_stdout, "report")
          /\ trainer_stdout[Len(trainer_stdout)] = "Training completed successfully!"
          /\ modelFile = tstart[1] + 1
          /\ featureNamesFile = tstart[2] + 1

C9_Witness ==
    /\ csv = "absent"
    /\ tpc = "done"
    /\ texit = 1
    /\ Len(trainer_stdout) = 2
    /\ <<modelFile, featureNamesFile>> = <<0, 0>>

\* the parts of C10 that hold as claimed, for one step:
\* the model file is written only by the trainer after load and fit succeeded
\* and before that run writes the feature-name file; a predictor step changes
\* no file; an invocation begun after the model was saved does not print the
\* Model-not-found object.
C10_Step ==
    /\ modelFile' # modelFile =>
          /\ tpc = "save"
          /\ Contains(trainer_stdout, "Loading dataset...")
          /\ Contains(trainer_stdout, "Model Accuracy")
          /\ featureNamesFile = tstart[2]
          /\ pvars' = pvars
    /\ featureNamesFile' # featureNamesFile =>
          /\ modelFile = tstart[1] + 1
          /\ pvars' = pvars
    /\ pvars' # pvars => fvars' = fvars
    /\ (ppc' = "done" /\ pstart' # 0) => predictor_stdout' # <<ModelNotFoundLine>>

\* C10 as claimed: besides the above, the model file is created once and is
\* never deleted or changed afterwards.
C10_Original ==
    [][C10_Step /\ (modelFile # 0 => modelFile' = modelFile)]_vars

\* C10 as amended: the model file is never deleted, but it is not created just
\* once: every trainer run that gets past fit writes it anew; the rest holds.
C10_Lifecycle ==
    [][C10_Step /\ (modelFile # 0 => modelFile' # 0)]_vars

C10_Witness ==
    /\ modelFile = 2
    /\ tstart = <<1, 1>>
    /\ Succeeded
    /\ pstart = 1
    /\ model = 2

====
